---------------------------- MODULE Spec2Model ----------------------------
(***************************************************************************)
(* A model of src/langchain_chat.py: the search_web tool (results page     *)
(* fetch, redirect resolution, page fetch, text extraction, fallbacks)     *)
(* and the agent loop of ChatbotUI (run_agent, chat).                      *)
(*                                                                         *)
(* Text is modelled as a sequence of runs [ch, n] (the character ch        *)
(* repeated n times); Render turns a text into the string it denotes.      *)
(* URLs are sequences of one-character strings.                            *)
(***************************************************************************)
EXTENDS Integers, Sequences, FiniteSets, TLC

VARIABLES
    pc,            \* control location: chat, invoke, tools, get1, get2, ret, done
    web,           \* what the network answers: web.get1, web.get2
    history,       \* chat's history argument
    messages,      \* the Conversation of the turn (run_agent's messages list)
    iter,          \* run_agent's loop variable i
    response,      \* the last response of llm.invoke
    k,             \* position in response.tool_calls (1-based)
    query,         \* search_web's query argument
    result_links,  \* search_web's result_links
    first_url,     \* search_web's first_url, as passed to the second GET
    content_parts, \* search_web's content_parts
    content,       \* search_web's content, when the page was read
    result,        \* the string search_web returned
    gets,          \* the GET requests issued by the current search_web call
    invokes,       \* number of llm.invoke calls of the turn
    llm_input,     \* the messages the last llm.invoke was given
    searched,      \* the queries search_web was executed for, in order
    outcome,       \* running, returned (run_agent returned), raised
    exc,           \* the description of the exception that left run_agent
    agentRet,      \* run_agent's return value (when outcome = "returned")
    chatRet,       \* chat's return value (when pc = "done")
    propagated     \* an exception left chat

vars == << pc, web, history, messages, iter, response, k, query, result_links, first_url,
           content_parts, content, result, gets, invokes, llm_input, searched, outcome,
           exc, agentRet, chatRet, propagated >>

(***************************************************************************)
(* Bounds of the model and constants of the program.                       *)
(***************************************************************************)
\* results-page anchors offered by the network (the code keeps ResultLimit)
MaxAnchors == 4
\* tool-call requests in one model response
MaxCalls == 2
\* tool-call requests the model emits over one turn
MaxTurnCalls == 5
\* paragraph blocks after the first one on a fetched page
MaxBlocks == 9

max_iterations == 5
ResultLimit == 3
ParagraphCap == 8
MinParagraphLen == 50
MaxContentLen == 1500
MinContentLen == 100

(***************************************************************************)
(* Text: runs of characters.                                               *)
(***************************************************************************)
Whitespace == {" ", "\n", "\t"}

RECURSIVE Rep(_, _)
Rep(c, n) ==
    IF n = 0 THEN ""
    ELSE IF n % 2 = 0 THEN LET h == Rep(c, n \div 2) IN h \o h
    ELSE c \o Rep(c, n - 1)

RECURSIVE Render(_)
Render(t) == IF t = <<>> THEN "" ELSE Rep(t[1].ch, t[1].n) \o Render(Tail(t))

RECURSIVE TextLen(_)
TextLen(t) == IF t = <<>> THEN 0 ELSE t[1].n + TextLen(Tail(t))

RECURSIVE LStrip(_)
LStrip(t) ==
    IF t = <<>> THEN <<>>
    ELSE IF t[1].ch \in Whitespace \/ t[1].n = 0 THEN LStrip(Tail(t))
    ELSE t

RECURSIVE RStrip(_)
RStrip(t) ==
    IF t = <<>> THEN <<>>
    ELSE IF t[Len(t)].ch \in Whitespace \/ t[Len(t)].n = 0
         THEN RStrip(SubSeq(t, 1, Len(t) - 1))
    ELSE t

\* str.strip()
Strip(t) == RStrip(LStrip(t))

\* t[:n]
RECURSIVE Slice(_, _)
Slice(t, n) ==
    IF t = <<>> \/ n <= 0 THEN <<>>
    ELSE IF t[1].n <= n THEN <<t[1]>> \o Slice(Tail(t), n - t[1].n)
    ELSE << [ch |-> t[1].ch, n |-> n] >>

\* sep.join(parts), on rendered strings
RECURSIVE JoinStr(_, _)
JoinStr(sep, parts) ==
    IF parts = <<>> THEN ""
    ELSE IF Len(parts) = 1 THEN parts[1]
    ELSE parts[1] \o sep \o JoinStr(sep, Tail(parts))

\* ' '.join(parts), on texts
RECURSIVE JoinText(_)
JoinText(parts) ==
    IF parts = <<>> THEN <<>>
    ELSE IF Len(parts) = 1 THEN parts[1]
    ELSE parts[1] \o << [ch |-> " ", n |-> 1] >> \o JoinText(Tail(parts))


(***************************************************************************)
(* URLs: sequences of one-character strings.                               *)
(***************************************************************************)
StartsWith(s, pre) == Len(s) >= Len(pre) /\ SubSeq(s, 1, Len(pre)) = pre

\* sub in s
Contains(s, sub) ==
    \E i \in 1..(Len(s) + 1) :
        i + Len(sub) - 1 <= Len(s) /\ SubSeq(s, i, i + Len(sub) - 1) = sub

\* position of the first c in s, 0 when there is none
IndexOf(s, c) ==
    IF \E i \in 1..Len(s) : s[i] = c
    THEN CHOOSE i \in 1..Len(s) : s[i] = c /\ \A j \in 1..(i - 1) : s[j] # c
    ELSE 0

\* s.split(c)
RECURSIVE Split(_, _)
Split(s, c) ==
    LET i == IndexOf(s, c)
    IN  IF i = 0 THEN << s >>
        ELSE << SubSeq(s, 1, i - 1) >> \o Split(SubSeq(s, i + 1, Len(s)), c)

\* the percent-escapes of the model's alphabet: two hex digits and the
\* character they encode
Escapes ==
    { <<"2", "F", "/">>, <<"2", "f", "/">>, <<"3", "A", ":">>, <<"3", "a", ":">>,
      <<"3", "F", "?">>, <<"3", "f", "?">>, <<"3", "D", "=">>, <<"3", "d", "=">>,
      <<"2", "5", "%">>, <<"2", "6", "&">>, <<"2", "0", " ">>, <<"2", "B", "+">>,
      <<"2", "b", "+">>, <<"2", "3", "#">> }

IsEscape(a, b) == \E e \in Escapes : e[1] = a /\ e[2] = b
Unescape(a, b) == (CHOOSE e \in Escapes : e[1] = a /\ e[2] = b)[3]

\* the percent-encoding of a destination in a redirect link: every reserved
\* character becomes % and its two upper-case hex digits
QuoteChar(c) ==
    IF \E e \in Escapes : e[3] = c
    THEN LET e == CHOOSE e \in Escapes :
                      e[3] = c /\ e[2] \notin {"a", "b", "d", "f"}
         IN  << "%", e[1], e[2] >>
    ELSE << c >>

RECURSIVE Quote(_)
Quote(s) == IF s = <<>> THEN <<>> ELSE QuoteChar(s[1]) \o Quote(Tail(s))

\* urllib.parse.unquote: every %XX is decoded, once, left to right
RECURSIVE Unquote(_)
Unquote(s) ==
    IF s = <<>> THEN <<>>
    ELSE IF s[1] = "%" /\ Len(s) >= 3 /\ IsEscape(s[2], s[3])
         THEN << Unescape(s[2], s[3]) >> \o Unquote(SubSeq(s, 4, Len(s)))
    ELSE << s[1] >> \o Unquote(Tail(s))

\* s.replace('+', ' ')
PlusToSpace(s) == [i \in 1..Len(s) |-> IF s[i] = "+" THEN " " ELSE s[i]]

\* urllib.parse.urlparse(u).query: the fragment is split off first, then the
\* query is what follows the first '?'
UrlQuery(u) ==
    LET h == IndexOf(u, "#")
        noFrag == IF h = 0 THEN u ELSE SubSeq(u, 1, h - 1)
        q == IndexOf(noFrag, "?")
    IN  IF q = 0 THEN <<>> ELSE SubSeq(noFrag, q + 1, Len(noFrag))

\* urllib.parse.parse_qs(query), as the list of its (name, value) pairs in
\* order: fields are separated by '&', a field without '=' or with an empty
\* value is dropped, '+' is a space, and names and values are unquoted
RECURSIVE QsPairs(_)
QsPairs(fields) ==
    IF fields = <<>> THEN <<>>
    ELSE LET f == fields[1]
             e == IndexOf(f, "=")
             rest == QsPairs(Tail(fields))
         IN  IF e = 0 \/ e = Len(f) THEN rest
             ELSE << [name |-> Unquote(PlusToSpace(SubSeq(f, 1, e - 1))),
                      value |-> Unquote(PlusToSpace(SubSeq(f, e + 1, Len(f))))] >>
                  \o rest

ParseQs(qs) == QsPairs(Split(qs, "&"))

HasParam(params, name) == \E i \in 1..Len(params) : params[i].name = name
\* params[name][0]
FirstParam(params, name) ==
    params[CHOOSE i \in 1..Len(params) :
               params[i].name = name /\ \A j \in 1..(i - 1) : params[j].name # name].value

S_http == <<"h", "t", "t", "p">>
S_https_colon == <<"h", "t", "t", "p", "s", ":">>
S_uddg == <<"u", "d", "d", "g">>
S_uddg_eq == <<"u", "d", "d", "g", "=">>
S_origin == <<"h", "t", "t", "p", "s", ":", "/", "/", "d", "u", "c", "k", "d", "u",
              "c", "k", "g", "o", ".", "c", "o", "m">>

\* the redirect target of a DuckDuckGo link, or the link itself
ExtractRedirect(href) ==
    IF Contains(href, S_uddg_eq)
    THEN LET parsed == IF StartsWith(href, S_http) THEN href ELSE S_https_colon \o href
             params == ParseQs(UrlQuery(parsed))
         IN  IF HasParam(params, S_uddg)
             THEN Unquote(FirstParam(params, S_uddg))
             ELSE href
    ELSE href

\* a variant that tests for / before it tests for //
FixRelative_RootFirst(url) ==
    IF StartsWith(url, <<"/">>) THEN S_origin \o url
    ELSE IF StartsWith(url, <<"/", "/">>) THEN S_https_colon \o url
    ELSE url

\* scheme-relative and root-relative URLs made absolute
FixRelative(url) ==
    IF StartsWith(url, <<"/", "/">>) THEN S_https_colon \o url
    ELSE IF StartsWith(url, <<"/">>) THEN S_origin \o url
    ELSE url

NormalizeUrl(href) == FixRelative(ExtractRedirect(href))

\* requests.get raises MissingSchema or InvalidSchema unless the URL is an
\* http or https URL
Fetchable(url) ==
    \/ StartsWith(url, <<"h", "t", "t", "p", ":", "/", "/">>)
    \/ StartsWith(url, S_https_colon \o <<"/", "/">>)


(***************************************************************************)
(* The network: what the two GET requests of search_web are answered.      *)
(***************************************************************************)
Run(c, n) == [ch |-> c, n |-> n]

\* the text of the i-th result anchor: Foo, Bar, Txxx, Txxxx, ..., the odd
\* ones surrounded by white space as markup usually is
AnchorTitle(i) ==
    IF i = 1 THEN << Run("F", 1), Run("o", 2) >>
    ELSE IF i = 2 THEN << Run("B", 1), Run("a", 1), Run("r", 1) >>
    ELSE << Run("T", 1), Run("x", i) >>

AnchorText(i) ==
    IF i % 2 = 1
    THEN << Run("\n", 1), Run(" ", 2) >> \o AnchorTitle(i) \o << Run(" ", 1) >>
    ELSE AnchorTitle(i)

S_dest == <<"e", ".", "c", "/", "a">>
H_abs == S_https_colon \o <<"/", "/">> \o S_dest
H_scheme_rel == <<"/", "/">> \o S_dest
H_root_rel == <<"/", "a">>
H_bare == S_dest
\* //d.g/l/?uddg=https%3A%2F%2Fe.c%2Fa&rut=1
H_redirect ==
    <<"/", "/", "d", ".", "g", "/", "l", "/", "?">> \o S_uddg_eq
    \o <<"h", "t", "t", "p", "s", "%", "3", "A", "%", "2", "F", "%", "2", "F",
         "e", ".", "c", "%", "2", "F", "a", "&", "r", "u", "t", "=", "1">>
\* /l/?uddg=
H_blank_uddg == <<"/", "l", "/", "?">> \o S_uddg_eq
\* //e.c/a#uddg=x
H_fragment_uddg == H_scheme_rel \o <<"#">> \o S_uddg_eq \o <<"x">>
\* https://e.c/?xuddg=1
H_other_param ==
    S_https_colon \o <<"/", "/", "e", ".", "c", "/", "?", "x">> \o S_uddg_eq \o <<"1">>

\* destinations of redirect links: https://e.c/a, https://e.c/a%20b, /a and
\* //e.c/a
D_escaped == H_abs \o <<"%", "2", "0", "b">>
Destinations == { H_abs, D_escaped, H_root_rel, H_scheme_rel }

\* //d.g/l/?uddg=<the destination u, percent-encoded>&rut=1
RedirectTo(u) ==
    <<"/", "/", "d", ".", "g", "/", "l", "/", "?">> \o S_uddg_eq \o Quote(u)
    \o <<"&", "r", "u", "t", "=", "1">>

\* the href attribute of the first anchor: absent, or one of these
Hrefs ==
    { [has |-> FALSE, href |-> <<>>] }
    \cup { [has |-> TRUE, href |-> h] :
             h \in { H_redirect, H_abs, H_scheme_rel, H_root_rel, H_bare, H_blank_uddg,
                     H_fragment_uddg, H_other_param }
                   \cup { RedirectTo(u) : u \in Destinations } }

\* a results page with n result anchors, the first with href h
Anchors(n, h) ==
    [i \in 1..n |->
        [hasHref |-> IF i = 1 THEN h.has ELSE TRUE,
         href |-> IF i = 1 THEN h.href ELSE H_abs,
         text |-> AnchorText(i)]]

Letters == <<"a", "b", "c", "d", "e", "f", "g", "h", "i", "j", "k", "l", "m",
             "n", "o", "p", "q", "r", "s", "t">>

\* the kinds of <p> block: where it stands, whether white space surrounds
\* its text, and how many visible characters it has
BlockKinds ==
    { [region |-> "body", pad |-> FALSE, n |-> 50],
      [region |-> "body", pad |-> TRUE, n |-> 50],
      [region |-> "body", pad |-> FALSE, n |-> 51],
      [region |-> "body", pad |-> FALSE, n |-> 98],
      [region |-> "body", pad |-> FALSE, n |-> 99],
      [region |-> "body", pad |-> FALSE, n |-> 100],
      [region |-> "body", pad |-> TRUE, n |-> 101],
      [region |-> "body", pad |-> FALSE, n |-> 700],
      [region |-> "nav", pad |-> FALSE, n |-> 700] }

\* the <p> block of kind b at position i of the page: its text is the i-th
\* letter repeated
Block(b, i) ==
    [region |-> b.region,
     text |-> IF b.pad
              THEN << Run(" ", 3), Run(Letters[i], b.n), Run("\n", 1) >>
              ELSE << Run(Letters[i], b.n) >>]

\* a page: nothing, or a block of kind b1 followed by n blocks of kind b2
PageOf(b1, n, b2) == << Block(b1, 1) >> \o [i \in 1..n |-> Block(b2, i + 1)]

Pages ==
    { <<>> } \cup { PageOf(b1, n, b2) : b1 \in BlockKinds, n \in 0..MaxBlocks, b2 \in BlockKinds }

GetFailed(e) == [ok |-> FALSE, err |-> e, anchors |-> <<>>, page |-> <<>>]
ResultsPage(a) == [ok |-> TRUE, err |-> "", anchors |-> a, page |-> <<>>]
FetchedPage(p) == [ok |-> TRUE, err |-> "", anchors |-> <<>>, page |-> p]

Timeout == "Read timed out."

FirstGets ==
    { GetFailed(Timeout), ResultsPage(<<>>) }
    \cup { ResultsPage(Anchors(n, h)) : n \in 1..MaxAnchors, h \in Hrefs }

SecondGets == { GetFailed(Timeout) } \cup { FetchedPage(p) : p \in Pages }

Webs == [get1 : FirstGets, get2 : SecondGets]

Queries == { "rain in Paris", "" }


(***************************************************************************)
(* search_web                                                              *)
(***************************************************************************)
Min(a, b) == IF a <= b THEN a ELSE b

\* how a call of search_web ends: by returning value, or by an exception
Returned(v) == [raised |-> FALSE, value |-> v]
Raised(e) == [raised |-> TRUE, value |-> e]

NoneNotIterable == "argument of type 'NoneType' is not iterable"

\* find_all('a', class_='result__a', limit=3)
FindResultLinks(anchors) == SubSeq(anchors, 1, Min(Len(anchors), ResultLimit))

\* [link.get_text().strip() for link in result_links]
Titles(links) == [i \in 1..Len(links) |-> Render(Strip(links[i].text))]

TitlesFallback(links) == "Search results: " \o JoinStr(" | ", Titles(links))

\* a variant that falls through to the titles of no anchors
NoResults_FallThrough == Returned(TitlesFallback(<<>>))

NoResults == Returned("No results found")

\* a variant without the outer handler: the exception leaves search_web
OuterExcept_Missing(e) == Raised(e)

\* except Exception as e: return f"Search failed: {str(e)}"
OuterExcept(e) == Returned("Search failed: " \o e)

\* a variant without the inner handler: a failed page fetch is a failed search
InnerExcept_Missing(links, e) == Returned("Search failed: " \o e)

\* except Exception as fetch_error: the titles of the results
InnerExcept(links, e) == Returned(TitlesFallback(links))

\* script, style, nav, header and footer are decomposed, then find_all('p')
Paragraphs(page) == SelectSeq(page, LAMBDA b : b.region = "body")

\* a variant that filters by length first and keeps 8 of what is left
ContentParts_FilterFirst(paragraphs) ==
    LET texts == [i \in 1..Len(paragraphs) |-> Strip(paragraphs[i].text)]
        long == SelectSeq(texts, LAMBDA t : TextLen(t) > MinParagraphLen)
    IN  SubSeq(long, 1, Min(Len(long), ParagraphCap))

\* the stripped texts of the first 8 paragraphs that are longer than 50
ContentParts(paragraphs) ==
    LET firsts == SubSeq(paragraphs, 1, Min(Len(paragraphs), ParagraphCap))
        texts == [i \in 1..Len(firsts) |-> Strip(firsts[i].text)]
    IN  SelectSeq(texts, LAMBDA t : TextLen(t) > MinParagraphLen)

\* a variant that also cuts a content of exactly 1500 characters
Truncate_AtLeast(joined) ==
    IF TextLen(joined) >= MaxContentLen
    THEN Slice(joined, MaxContentLen) \o << Run(".", 3) >>
    ELSE joined

\* content[:1500] + "..." when content is longer than 1500
Truncate(joined) ==
    IF TextLen(joined) > MaxContentLen
    THEN Slice(joined, MaxContentLen) \o << Run(".", 3) >>
    ELSE joined

ExtractContent(page) == Truncate(JoinText(ContentParts(Paragraphs(page))))

\* a variant that accepts a content of exactly 100 characters
PageResult_AtLeast(links, c) ==
    IF TextLen(c) > 0 /\ TextLen(c) >= MinContentLen
    THEN Returned("Source: " \o Render(Strip(links[1].text)) \o "\n\n" \o Render(c))
    ELSE Returned(TitlesFallback(links))

\* if content and len(content) > 100: the source, else the titles
PageResult(links, c) ==
    IF TextLen(c) > 0 /\ TextLen(c) > MinContentLen
    THEN Returned("Source: " \o Render(Strip(links[1].text)) \o "\n\n" \o Render(c))
    ELSE Returned(TitlesFallback(links))

\* lines 19-47: the first GET, the result anchors, the URL of the first one
AfterFirstGet(got) ==
    IF ~got.ok THEN [pc |-> "ret", links |-> <<>>, url |-> <<>>, result |-> OuterExcept(got.err)]
    ELSE LET links == FindResultLinks(got.anchors)
         IN  IF links = <<>>
             THEN [pc |-> "ret", links |-> links, url |-> <<>>, result |-> NoResults]
             ELSE IF ~links[1].hasHref
             THEN [pc |-> "ret", links |-> links, url |-> <<>>,
                   result |-> OuterExcept(NoneNotIterable)]
             ELSE [pc |-> "get2", links |-> links, url |-> NormalizeUrl(links[1].href),
                   result |-> Returned("")]

\* lines 51-90: the second GET and what is made of the page
AfterSecondGet(got, links, url) ==
    IF ~Fetchable(url) THEN InnerExcept(links, "Invalid URL: No scheme supplied")
    ELSE IF ~got.ok THEN InnerExcept(links, got.err)
    ELSE PageResult(links, ExtractContent(got.page))

\* lines 66-70: content_parts when search_web returns
AfterSecondGetParts(got, url) ==
    IF Fetchable(url) /\ got.ok THEN ContentParts(Paragraphs(got.page)) ELSE <<>>

\* lines 72-77: content when search_web returns
AfterSecondGetContent(got, url) ==
    IF Fetchable(url) /\ got.ok THEN ExtractContent(got.page) ELSE <<>>

\* lines 19-47: the GET of the results page
SearchGet1 ==
    /\ pc = "get1"
    /\ LET a == AfterFirstGet(web.get1)
       IN  /\ pc' = a.pc
           /\ result_links' = a.links
           /\ first_url' = a.url
           /\ result' = a.result
    /\ content_parts' = <<>>
    /\ content' = <<>>
    /\ gets' = << "search" >>
    /\ UNCHANGED << web, history, messages, iter, response, k, query, invokes, llm_input,
                    searched, outcome, exc, agentRet, chatRet, propagated >>

\* a variant that tries the page a second time when its GET failed
SearchGet2_Retry ==
    /\ pc = "get2"
    /\ gets' = Append(gets, "page")
    /\ IF ~web.get2.ok /\ Len(gets) < 2
       THEN UNCHANGED << pc, result, content_parts, content >>
       ELSE /\ result' = AfterSecondGet(web.get2, result_links, first_url)
            /\ content_parts' = AfterSecondGetParts(web.get2, first_url)
            /\ content' = AfterSecondGetContent(web.get2, first_url)
            /\ pc' = "ret"
    /\ UNCHANGED << web, history, messages, iter, response, k, query, result_links,
                    first_url, invokes, llm_input, searched, outcome, exc, agentRet,
                    chatRet, propagated >>

\* lines 51-90: the GET of the first result's page
SearchGet2 ==
    /\ pc = "get2"
    /\ result' = AfterSecondGet(web.get2, result_links, first_url)
    /\ content_parts' = AfterSecondGetParts(web.get2, first_url)
    /\ content' = AfterSecondGetContent(web.get2, first_url)
    /\ gets' = Append(gets, "page")
    /\ pc' = "ret"
    /\ UNCHANGED << web, history, messages, iter, response, k, query, result_links,
                    first_url, invokes, llm_input, searched, outcome, exc, agentRet,
                    chatRet, propagated >>


(***************************************************************************)
(* The model service and the messages of a turn.                           *)
(***************************************************************************)
HumanMessage(c) == [role |-> "user", content |-> c, tool_calls |-> <<>>, tool_call_id |-> ""]
AIMessage(c, calls) ==
    [role |-> "assistant", content |-> c, tool_calls |-> calls, tool_call_id |-> ""]
ToolMessage(c, id) == [role |-> "tool", content |-> c, tool_calls |-> <<>>, tool_call_id |-> id]

\* the args of a tool call: a dict, as a set of (key, value) pairs, or
\* another value
DictArgs(items) == [isDict |-> TRUE, items |-> items, raw |-> ""]
RawArgs(v) == [isDict |-> FALSE, items |-> {}, raw |-> v]

Calls ==
    { [name |-> "search_web", args |-> DictArgs({ <<"query", "rain in Paris">> }), id |-> "call_1"],
      [name |-> "search_web", args |-> DictArgs({}), id |-> "call_2"],
      [name |-> "get_weather", args |-> DictArgs({ <<"city", "Paris">> }), id |-> "call_1"] }

CallLists == UNION { [1..n -> Calls] : n \in 1..MaxCalls }

PlainText == "It is sunny."
ToolCallText == "{\"name\": \"search_web\", \"parameters\": {\"query\": \"rain in Paris\"}}"

\* what llm.invoke may return: a text without tool calls, or tool calls
Responses ==
    { AIMessage(c, <<>>) : c \in { PlainText, ToolCallText } }
    \cup { AIMessage("", calls) : calls \in CallLists }

ConnectionRefused == "[Errno 111] Connection refused"

Histories ==
    { <<>>,
      << [role |-> "user", content |-> "Hi"],
         [role |-> "assistant", content |-> "Hello!"],
         [role |-> "system", content |-> "Be brief."] >> }

UserMessage == "What's the weather like today?"

\* the tool-call requests in the conversation
RECURSIVE TurnCalls(_)
TurnCalls(msgs) ==
    IF msgs = <<>> THEN 0 ELSE Len(msgs[1].tool_calls) + TurnCalls(Tail(msgs))

\* three networks for a turn: the search fails, it gives titles only, it
\* gives the text of the first result. The network answers every search of
\* one turn alike; SpecSearch explores search_web over all of Webs.
TurnWebs ==
    { [get1 |-> GetFailed(Timeout), get2 |-> GetFailed(Timeout)],
      [get1 |-> ResultsPage(Anchors(2, [has |-> TRUE, href |-> H_redirect])),
       get2 |-> GetFailed(Timeout)],
      [get1 |-> ResultsPage(Anchors(3, [has |-> TRUE, href |-> H_redirect])),
       get2 |-> FetchedPage(PageOf([region |-> "body", pad |-> TRUE, n |-> 101], 1,
                                   [region |-> "body", pad |-> FALSE, n |-> 51]))] }

(***************************************************************************)
(* ChatbotUI.chat and ChatbotUI.run_agent                                  *)
(***************************************************************************)
\* lines 165-173: the history as messages, then the current message
RECURSIVE ConvertHistory(_)
ConvertHistory(h) ==
    IF h = <<>> THEN <<>>
    ELSE (IF h[1].role = "user" THEN << HumanMessage(h[1].content) >>
          ELSE IF h[1].role = "assistant" THEN << AIMessage(h[1].content, <<>>) >>
          ELSE <<>>)
         \o ConvertHistory(Tail(h))

\* lines 137-140
ExtractQuery(args) ==
    IF args.isDict
    THEN IF \E p \in args.items : p[1] = "query"
         THEN (CHOOSE p \in args.items : p[1] = "query")[2]
         ELSE ""
    ELSE args.raw

\* a variant without the handler of chat: the exception leaves chat
ChatExcept_Missing(e) == [ret |-> "", propagated |-> TRUE]

\* lines 178-179: except Exception as e: return f"Error: {str(e)}"
ChatExcept(e) == [ret |-> "Error: " \o e, propagated |-> FALSE]

\* line 158
Exhausted == "Max iterations reached"

\* line 156: what run_agent returns for a response without tool calls
FinalAnswer(r, queries) == r.content

\* a variant that only tests that the response has a tool_calls attribute
WantsTool_HasAttr(r) == TRUE

\* line 129
WantsTool(r) == r.tool_calls # <<>>

\* a variant whose loop runs once more
InRange_OneMore(i) == i <= max_iterations

\* line 115: the loop goes on while i is in range(max_iterations)
InRange(i) == i < max_iterations

\* line 132
IsSearch(tc) == tc.name = "search_web"

\* a variant that labels the result with the tool's name
ToolResult_ByName(v, tc) == ToolMessage(v, tc.name)

\* lines 148-151: the message that carries the result of request tc
ToolResult(v, tc) == ToolMessage(v, tc.id)

\* run_agent returns v, and chat returns it (lines 176-177)
Return(v) ==
    /\ pc' = "done"
    /\ outcome' = "returned"
    /\ agentRet' = v
    /\ chatRet' = v
    /\ UNCHANGED << exc, propagated >>

\* an exception e leaves run_agent and reaches chat's handler
Throw(e) ==
    /\ pc' = "done"
    /\ outcome' = "raised"
    /\ exc' = e
    /\ chatRet' = ChatExcept(e).ret
    /\ propagated' = ChatExcept(e).propagated
    /\ UNCHANGED agentRet

ChatStart ==
    /\ pc = "chat"
    /\ messages' = ConvertHistory(history) \o << HumanMessage(UserMessage) >>
    /\ iter' = 0
    /\ pc' = "invoke"
    /\ UNCHANGED << web, history, response, k, query, result_links, first_url,
                    content_parts, content, result, gets, invokes, llm_input, searched,
                    outcome, exc, agentRet, chatRet, propagated >>

\* a variant that gives up on the last response without handling its
\* requests
LlmInvoke_LastUnhandled ==
    /\ pc = "invoke"
    /\ \E r \in Responses :
        /\ TurnCalls(messages) + Len(r.tool_calls) <= MaxTurnCalls
        /\ invokes' = invokes + 1
        /\ llm_input' = messages
        /\ response' = r
        /\ messages' = Append(messages, r)
        /\ IF WantsTool(r) /\ InRange(iter + 1)
           THEN /\ pc' = "tools"
                /\ k' = 1
                /\ UNCHANGED << outcome, exc, agentRet, chatRet, propagated >>
           ELSE /\ Return(IF WantsTool(r) THEN Exhausted ELSE FinalAnswer(r, searched))
                /\ UNCHANGED k
    /\ UNCHANGED << web, history, iter, query, result_links, first_url, content_parts,
                    content, result, gets, searched >>

\* lines 117-118, 129, 156: the model answers r
LlmInvoke ==
    /\ pc = "invoke"
    /\ \E r \in Responses :
        /\ TurnCalls(messages) + Len(r.tool_calls) <= MaxTurnCalls
        /\ invokes' = invokes + 1
        /\ llm_input' = messages
        /\ response' = r
        /\ messages' = Append(messages, r)
        /\ IF WantsTool(r)
           THEN /\ pc' = "tools"
                /\ k' = 1
                /\ UNCHANGED << outcome, exc, agentRet, chatRet, propagated >>
           ELSE /\ Return(FinalAnswer(r, searched))
                /\ UNCHANGED k
    /\ UNCHANGED << web, history, iter, query, result_links, first_url, content_parts,
                    content, result, gets, searched >>

\* line 117 raises: the model service cannot be reached
LlmFails ==
    /\ pc = "invoke"
    /\ invokes' = invokes + 1
    /\ llm_input' = messages
    /\ Throw(ConnectionRefused)
    /\ UNCHANGED << web, history, messages, iter, response, k, query, result_links,
                    first_url, content_parts, content, result, gets, searched >>

\* lines 130-144: the k-th request names search_web: search_web is called
CallSearch ==
    /\ pc = "tools"
    /\ k <= Len(response.tool_calls)
    /\ IsSearch(response.tool_calls[k])
    /\ query' = ExtractQuery(response.tool_calls[k].args)
    /\ searched' = Append(searched, query')
    /\ result_links' = <<>>
    /\ first_url' = <<>>
    /\ content_parts' = <<>>
    /\ content' = <<>>
    /\ result' = Returned("")
    /\ gets' = <<>>
    /\ pc' = "get1"
    /\ UNCHANGED << web, history, messages, iter, response, k, invokes, llm_input,
                    outcome, exc, agentRet, chatRet, propagated >>

\* a variant that fails the turn on a request naming another tool
SkipCall_Raises ==
    /\ pc = "tools"
    /\ k <= Len(response.tool_calls)
    /\ ~IsSearch(response.tool_calls[k])
    /\ Throw("Unknown tool: " \o response.tool_calls[k].name)
    /\ UNCHANGED << web, history, messages, iter, response, k, query, result_links,
                    first_url, content_parts, content, result, gets, invokes, llm_input,
                    searched >>

\* lines 130-132: the k-th request names another tool
SkipCall ==
    /\ pc = "tools"
    /\ k <= Len(response.tool_calls)
    /\ ~IsSearch(response.tool_calls[k])
    /\ k' = k + 1
    /\ UNCHANGED << pc, web, history, messages, iter, response, query, result_links,
                    first_url, content_parts, content, result, gets, invokes, llm_input,
                    searched, outcome, exc, agentRet, chatRet, propagated >>

\* a variant that puts the result in front of the conversation
AppendResult_Prepend ==
    /\ pc = "ret"
    /\ IF result.raised
       THEN /\ Throw(result.value)
            /\ UNCHANGED << messages, k >>
       ELSE /\ messages' = << ToolResult(result.value, response.tool_calls[k]) >> \o messages
            /\ k' = k + 1
            /\ pc' = "tools"
            /\ UNCHANGED << outcome, exc, agentRet, chatRet, propagated >>
    /\ UNCHANGED << web, history, iter, response, query, result_links, first_url,
                    content_parts, content, result, gets, invokes, llm_input, searched >>

\* lines 144-151: search_web is back; its result is appended
AppendResult ==
    /\ pc = "ret"
    /\ IF result.raised
       THEN /\ Throw(result.value)
            /\ UNCHANGED << messages, k >>
       ELSE /\ messages' = Append(messages, ToolResult(result.value, response.tool_calls[k]))
            /\ k' = k + 1
            /\ pc' = "tools"
            /\ UNCHANGED << outcome, exc, agentRet, chatRet, propagated >>
    /\ UNCHANGED << web, history, iter, response, query, result_links, first_url,
                    content_parts, content, result, gets, invokes, llm_input, searched >>

\* lines 153, 115, 158: all requests are handled; the next iteration, or the
\* end of the loop
NextIteration ==
    /\ pc = "tools"
    /\ k > Len(response.tool_calls)
    /\ iter' = iter + 1
    /\ IF InRange(iter + 1)
       THEN /\ pc' = "invoke"
            /\ UNCHANGED << outcome, exc, agentRet, chatRet, propagated >>
       ELSE Return(Exhausted)
    /\ UNCHANGED << web, history, messages, response, k, query, result_links, first_url,
                    content_parts, content, result, gets, invokes, llm_input, searched >>

(***************************************************************************)
(* Specifications.                                                         *)
(***************************************************************************)
NoResponse == AIMessage("", <<>>)

Idle ==
    /\ messages = <<>>
    /\ iter = 0
    /\ response = NoResponse
    /\ k = 0
    /\ result_links = <<>>
    /\ first_url = <<>>
    /\ content_parts = <<>>
    /\ content = <<>>
    /\ result = Returned("")
    /\ gets = <<>>
    /\ invokes = 0
    /\ llm_input = <<>>
    /\ searched = <<>>
    /\ outcome = "running"
    /\ exc = ""
    /\ agentRet = ""
    /\ chatRet = ""
    /\ propagated = FALSE

\* a turn: chat is called with a history and a message
Init ==
    /\ pc = "chat"
    /\ web \in TurnWebs
    /\ history \in Histories
    /\ query = ""
    /\ Idle

Next ==
    \/ ChatStart
    \/ LlmInvoke
    \/ LlmFails
    \/ CallSearch
    \/ SkipCall
    \/ SearchGet1
    \/ SearchGet2
    \/ AppendResult
    \/ NextIteration

Spec == Init /\ [][Next]_vars

\* one call of search_web, for every network and query
InitSearch ==
    /\ pc = "get1"
    /\ web \in Webs
    /\ history = <<>>
    /\ query \in Queries
    /\ Idle

NextSearch == SearchGet1 \/ SearchGet2

SpecSearch == InitSearch /\ [][NextSearch]_vars


(***************************************************************************)
(* Properties.                                                             *)
(***************************************************************************)
\* the messages the turn started with
InitialLen == Len(ConvertHistory(history)) + 1

\* the model responses of the turn, in order
TurnResponses ==
    IF Len(messages) <= InitialLen THEN <<>>
    ELSE SelectSeq(SubSeq(messages, InitialLen + 1, Len(messages)),
                   LAMBDA m : m.role = "assistant")

\* the turn ended on a response without tool-call requests
EndedOnAnswer ==
    /\ pc = "done"
    /\ outcome = "returned"
    /\ TurnResponses # <<>>
    /\ messages[Len(messages)].role = "assistant"
    /\ messages[Len(messages)].tool_calls = <<>>

FiveToolResponses ==
    /\ Len(TurnResponses) = 5
    /\ \A j \in 1..5 : TurnResponses[j].tool_calls # <<>>

\* C1: run_agent invokes the model at most 5 times in a turn; when each of
\* the 5 responses carries a tool-call request there is no 6th invocation
\* and the turn returns "Max iterations reached".
C1_AtMostFiveInvocations ==
    /\ invokes <= 5
    /\ Len(TurnResponses) <= 5
    /\ FiveToolResponses => pc # "invoke"
    /\ (FiveToolResponses /\ pc = "done") =>
           /\ outcome = "returned"
           /\ agentRet = "Max iterations reached"
           /\ invokes = 5

C1_Witness ==
    /\ pc = "done"
    /\ FiveToolResponses
    /\ agentRet = "Max iterations reached"
    /\ searched # <<>>

\* C2: the first response without tool-call requests ends the loop in its
\* own iteration: run_agent returns at once, with the response's text when no
\* search was performed before; afterwards the model is not invoked and
\* nothing is searched; and the model is invoked again only after a response
\* that carried tool-call requests.
C2_AnswerEndsLoop ==
    [][ /\ (invokes' = invokes + 1 /\ messages' # messages
                /\ response'.tool_calls = <<>>) =>
               /\ pc' = "done"
               /\ outcome' = "returned"
               /\ searched = <<>> => agentRet' = response'.content
        /\ (invokes >= 1 /\ invokes' = invokes + 1) => response.tool_calls # <<>>
        /\ (TurnResponses # <<>> /\ response.tool_calls = <<>>) =>
               /\ invokes' = invokes
               /\ searched' = searched
               /\ gets' = gets
      ]_vars

C2_Witness ==
    /\ EndedOnAnswer
    /\ invokes = 3
    /\ searched = <<>>
    /\ agentRet = "It is sunny."

\* C3: search_web never raises: whatever the two GET requests answer and
\* whatever anchors are found, the call ends by returning a string, and no
\* exception leaves it.
C3_SearchNeverRaises ==
    /\ pc \in {"get1", "get2", "ret"}
    /\ pc = "ret" => (~result.raised /\ Len(result.value) > 0)

C3_Witness ==
    /\ pc = "ret"
    /\ Len(result_links) = 3
    /\ ~result_links[1].hasHref
    /\ ~result.raised

\* C4: an exception raised inside a turn is caught in chat, which returns
\* "Error: " followed by the description of the exception; no exception
\* leaves chat.
C4_ChatCatches ==
    /\ ~propagated
    /\ (pc = "done" /\ outcome = "raised") => chatRet = "Error: " \o exc

C4_Witness ==
    /\ pc = "done"
    /\ outcome = "raised"
    /\ invokes = 3
    /\ searched # <<>>
    /\ chatRet = "Error: [Errno 111] Connection refused"

\* the second GET was issued and failed
SecondGetFailed ==
    /\ pc = "ret"
    /\ gets = << "search", "page" >>
    /\ (~web.get2.ok \/ ~Fetchable(first_url))

\* the second GET was issued and answered with a page
SecondGetAnswered ==
    /\ pc = "ret"
    /\ gets = << "search", "page" >>
    /\ web.get2.ok
    /\ Fetchable(first_url)

\* the titles-only result for a results page with n anchors
ExpectedTitles(n) ==
    IF n = 1 THEN "Search results: Foo"
    ELSE IF n = 2 THEN "Search results: Foo | Bar"
    ELSE "Search results: Foo | Bar | Txxx"

\* C5: when the results page gave at least one anchor and the page fetch
\* fails, search_web returns "Search results: " and the titles of the first
\* 3 anchors at most, in page order, joined by " | ".
C5_FetchFailureGivesTitles ==
    SecondGetFailed =>
        /\ web.get1.ok
        /\ result = Returned(ExpectedTitles(Len(web.get1.anchors)))

C5_Witness ==
    /\ SecondGetFailed
    /\ ~web.get2.ok
    /\ Len(web.get1.anchors) = 2
    /\ result.value = "Search results: Foo | Bar"

\* C6: when the page fetch succeeded, search_web returns "Source: {title}",
\* a blank line and the content exactly when the extracted content is longer
\* than 100 characters, and the titles-only result otherwise.
C6_SourceIffLongContent ==
    SecondGetAnswered =>
        LET extracted == ExtractContent(web.get2.page)
        IN  result = Returned(IF TextLen(extracted) > 100
                              THEN "Source: Foo\n\n" \o Render(extracted)
                              ELSE ExpectedTitles(Len(web.get1.anchors)))

C6_Witness ==
    /\ SecondGetAnswered
    /\ TextLen(ExtractContent(web.get2.page)) = 100
    /\ result.value = "Search results: Foo | Bar | Txxx"

IsFailure(v) == v \in { "Search failed: " \o e : e \in { Timeout, NoneNotIterable } }

\* C7: search_web returns "Search failed: ..." only when the first GET
\* failed; once a result anchor was collected the result is the titles-only
\* string or the source string.
C7_FailureOnlyBeforeTitles ==
    pc = "ret" =>
        /\ IsFailure(result.value) => ~web.get1.ok
        /\ result_links # <<>> => ~IsFailure(result.value)

\* C8: a results page without result anchors gives "No results found" and
\* the call stops there, without a second GET.
C8_NoResultsStops ==
    (web.get1.ok /\ web.get1.anchors = <<>>) =>
        /\ pc # "get2"
        /\ pc = "ret" => (result = Returned("No results found") /\ gets = << "search" >>)

C8_Witness ==
    /\ pc = "ret"
    /\ web.get1.ok
    /\ web.get1.anchors = <<>>
    /\ result.value = "No results found"

\* the Tool-Call Normalizer's test, on the texts of the model
LooksLikeToolCall(text) == text \in { ToolCallText }

\* C9: a response with no structured tool call whose text is a tool call of
\* search_web is repaired: the search is executed in the same turn, and the
\* text is not returned as the answer.
C9_TextToolCallIsExecuted ==
    pc = "done" =>
        \A j \in (InitialLen + 1)..Len(messages) :
            (/\ messages[j].role = "assistant"
             /\ messages[j].tool_calls = <<>>
             /\ LooksLikeToolCall(messages[j].content)) =>
                /\ \E j2 \in (j + 1)..Len(messages) : messages[j2].role = "tool"
                /\ agentRet # messages[j].content

\* the search-activity notice of a query
Notice(q) == "searching the web for: " \o q

\* C10: when searches were executed and the turn ends on a response without
\* tool calls, run_agent returns the notices of the searches, in order and
\* joined by newlines, followed by the text of the response.
C10_NoticesPrefixAnswer ==
    (EndedOnAnswer /\ searched # <<>>) =>
        \E sep \in { "", "\n", "\n\n" } :
            agentRet = JoinStr("\n", [j \in 1..Len(searched) |-> Notice(searched[j])])
                       \o sep \o messages[Len(messages)].content


\* the positions after j of the tool results that carry the identifier id
ResultsFor(id, j) ==
    { j2 \in (j + 1)..Len(messages) :
          messages[j2].role = "tool" /\ messages[j2].tool_call_id = id }

\* run_agent is about to invoke the model, or has returned
AtInvokeOrReturn == pc = "invoke" \/ (pc = "done" /\ outcome = "returned")

\* C11: whenever run_agent invokes the model again or returns, every
\* tool-call request in the Conversation has its identifier referenced by
\* exactly one later ToolCallResult, whatever tool it names.
C11_OneResultPerRequest ==
    AtInvokeOrReturn =>
        \A j \in 1..Len(messages) :
            \A i \in 1..Len(messages[j].tool_calls) :
                Cardinality(ResultsFor(messages[j].tool_calls[i].id, j)) = 1


\* the positions of the tool results in the Conversation
ToolResults == { j \in 1..Len(messages) : messages[j].role = "tool" }

\* C12: no orphan tool result: in every state each ToolCallResult carries the
\* identifier of a request of an assistant message that precedes it.
C12_NoOrphanResult ==
    \A j \in ToolResults :
        \E j1 \in 1..(j - 1) :
            /\ messages[j1].role = "assistant"
            /\ \E i \in 1..Len(messages[j1].tool_calls) :
                   messages[j1].tool_calls[i].id = messages[j].tool_call_id

C12_Witness ==
    /\ Cardinality(ToolResults) >= 3
    /\ \E j \in ToolResults : messages[j].tool_call_id = "call_2"
    /\ messages[Len(messages)].role = "tool"


\* run_agent is at a request that names a tool other than search_web
AtOtherTool ==
    /\ pc = "tools"
    /\ k <= Len(response.tool_calls)
    /\ response.tool_calls[k].name # "search_web"

\* C13: a request naming another tool is ignored: the step that handles it
\* starts no search and no GET, appends nothing, raises nothing, and moves
\* on to the next request of the same response; after the last request the
\* next iteration (or the end of the loop) follows.
C13_OtherToolIgnored ==
    [][ AtOtherTool =>
            /\ messages' = messages
            /\ searched' = searched
            /\ gets' = gets
            /\ result' = result
            /\ outcome' = outcome
            /\ outcome' # "raised"
            /\ exc' = exc
            /\ chatRet' = chatRet
            /\ response' = response
            /\ iter' = iter
            /\ invokes' = invokes
            /\ pc' = "tools"
            /\ k' = k + 1
      ]_vars

C13_Witness ==
    /\ pc = "tools"
    /\ k = 3
    /\ response.tool_calls[1].name = "search_web"
    /\ response.tool_calls[2].name = "get_weather"
    /\ messages[Len(messages)].role = "tool"
    /\ iter = 1


\* C14: one call of search_web issues at most two GET requests, each once:
\* the results page first and then the first result's page; exactly one GET
\* when the results page fails or holds no anchor, and the second GET only
\* after the first one succeeded and an anchor was found.
C14_AtMostTwoGets ==
    /\ gets \in { <<>>, << "search" >>, << "search", "page" >> }
    /\ pc = "ret" => Len(gets) >= 1
    /\ (pc = "ret" /\ (~web.get1.ok \/ web.get1.anchors = <<>>)) => gets = << "search" >>
    /\ Len(gets) = 2 => (web.get1.ok /\ web.get1.anchors # <<>>)
    /\ pc = "get2" => (gets = << "search" >> /\ web.get1.ok /\ web.get1.anchors # <<>>)

C14_Witness ==
    /\ pc = "ret"
    /\ gets = << "search", "page" >>
    /\ Len(result_links) = 3
    /\ Fetchable(first_url)
    /\ ~web.get2.ok


\* the first result anchor is a redirect link to the destination u
FirstLinkRedirectsTo(u) ==
    /\ result_links # <<>>
    /\ result_links[1].hasHref
    /\ result_links[1].href = RedirectTo(u)

\* C15: for an href whose uddg parameter is the percent-encoding of a
\* destination u, URL normalization gives exactly u (decoded once, no
\* prefix added), also when u holds percent-escapes or starts with / or //.
C15_RedirectRoundTrip ==
    \A u \in Destinations : FirstLinkRedirectsTo(u) => first_url = u


\* the content of line 72, before it is cut
Joined == JoinText(content_parts)

\* C16 as stated: the extracted text has at most 1501 characters: a content
\* longer than 1500 is cut to its first 1500 characters with the marker
\* appended, a content of 1500 characters or fewer is left as it is.
C16_ContentAtMost1501 ==
    SecondGetAnswered =>
        /\ TextLen(content) <= MaxContentLen + 1
        /\ TextLen(Joined) > MaxContentLen =>
               Render(content) = Render(Slice(Joined, MaxContentLen)) \o "..."
        /\ TextLen(Joined) <= MaxContentLen => content = Joined

\* C16, amended: the marker is the three characters "...", so the extracted
\* text has at most 1503 characters; the rest is as stated.
C16_ContentAtMost1503 ==
    SecondGetAnswered =>
        /\ TextLen(content) <= MaxContentLen + 3
        /\ TextLen(Joined) > MaxContentLen =>
               /\ Render(content) = Render(Slice(Joined, MaxContentLen)) \o "..."
               /\ TextLen(content) = MaxContentLen + 3
        /\ TextLen(Joined) <= MaxContentLen => content = Joined

C16_Witness ==
    /\ SecondGetAnswered
    /\ TextLen(Joined) = MaxContentLen + 1
    /\ TextLen(content) = MaxContentLen + 3


IsPrefix(s, t) == Len(s) <= Len(t) /\ SubSeq(t, 1, Len(s)) = s

\* the position of the last model response in the Conversation
LastResponseIndex ==
    CHOOSE j \in 1..Len(messages) :
        /\ messages[j].role = "assistant"
        /\ \A j2 \in (j + 1)..Len(messages) : messages[j2].role # "assistant"

\* the identifiers of the tool results that follow the last model response
TailIds ==
    [j \in 1..(Len(messages) - LastResponseIndex) |->
        messages[LastResponseIndex + j].tool_call_id]

\* the identifiers of the search_web requests among the first n requests of
\* the response r
SearchIds(r, n) ==
    LET searches == SelectSeq(SubSeq(r.tool_calls, 1, n),
                              LAMBDA tc : tc.name = "search_web")
    IN  [j \in 1..Len(searches) |-> searches[j].id]

\* C17: the Conversation of a turn only grows at its end; the model is given
\* the whole Conversation; the response is appended before any of its tool
\* results; the searches of a response run one at a time in the order of
\* its requests; and each result is appended after its search ended, before
\* the next search starts and before the next invocation of the model.
C17_AppendOnlyInOrder ==
    [][ /\ IsPrefix(messages, messages')
        /\ pc # "chat" => Len(messages') <= Len(messages) + 1
        /\ invokes' = invokes + 1 =>
               /\ llm_input' = messages
               /\ messages' # messages => messages' = Append(messages, response')
        /\ (pc = "tools" /\ pc' = "get1") =>
               /\ response.tool_calls[k].name = "search_web"
               /\ messages[LastResponseIndex] = response
               /\ TailIds = SearchIds(response, k - 1)
               /\ Len(searched') = Len(searched) + 1
        /\ pc \in { "get1", "get2" } =>
               /\ messages' = messages
               /\ k' = k
               /\ searched' = searched
               /\ invokes' = invokes
        /\ (pc = "ret" /\ pc' = "tools") =>
               /\ Len(messages') = Len(messages) + 1
               /\ messages'[Len(messages')].role = "tool"
               /\ messages'[Len(messages')].content = result.value
               /\ messages'[Len(messages')].tool_call_id = response.tool_calls[k].id
               /\ k' = k + 1
        /\ (pc = "tools" /\ pc' \in { "invoke", "done" }) =>
               /\ k = Len(response.tool_calls) + 1
               /\ messages[LastResponseIndex] = response
               /\ TailIds = SearchIds(response, Len(response.tool_calls))
      ]_vars

C17_Witness ==
    /\ pc = "invoke"
    /\ Len(TurnResponses) = 2
    /\ Len(response.tool_calls) = 2
    /\ TailIds = << "call_1", "call_2" >>
    /\ Len(searched) = 3


\* the paragraph blocks of the fetched page, the removed regions left out
PageBlocks == Paragraphs(web.get2.page)

\* the single-space join of the trimmed texts of the blocks i, i+1, ... that
\* stand among the first 8 and are longer than 50 characters
RECURSIVE JoinQualifying(_, _)
JoinQualifying(blocks, i) ==
    IF i > Len(blocks) \/ i > 8 THEN ""
    ELSE LET t == Strip(blocks[i].text)
             rest == JoinQualifying(blocks, i + 1)
         IN  IF TextLen(t) <= 50 THEN rest
             ELSE IF rest = "" THEN Render(t)
             ELSE Render(t) \o " " \o rest

PlainHrefs ==
    { H_abs, H_scheme_rel, H_root_rel, H_bare, H_blank_uddg, H_fragment_uddg,
      H_other_param }

\* the first result anchor has the href h
FirstLinkIs(h) ==
    /\ result_links # <<>>
    /\ result_links[1].hasHref
    /\ result_links[1].href = h

\* C19: an href without a redirect parameter is normalized in this order: a
\* value that begins with // gets https: in front; otherwise a value that
\* begins with / gets https://duckduckgo.com in front; otherwise the value
\* is kept as it is. An href that holds the text uddg= without a parseable
\* uddg parameter goes the same way.
C19_PlainHrefRules ==
    \A h \in PlainHrefs :
        FirstLinkIs(h) =>
            first_url =
                IF SubSeq(h, 1, 2) = << "/", "/" >>
                THEN << "h", "t", "t", "p", "s", ":" >> \o h
                ELSE IF SubSeq(h, 1, 1) = << "/" >>
                THEN << "h", "t", "t", "p", "s", ":", "/", "/", "d", "u", "c", "k", "d",
                        "u", "c", "k", "g", "o", ".", "c", "o", "m" >> \o h
                ELSE h

C19_Witness ==
    /\ pc = "ret"
    /\ FirstLinkIs(H_fragment_uddg)
    /\ first_url = S_https_colon \o H_fragment_uddg
    /\ gets = << "search", "page" >>


\* run_agent returned at line 158
ReturnedExhausted ==
    /\ pc = "done"
    /\ outcome = "returned"
    /\ agentRet = "Max iterations reached"

\* the number of search_web requests in the responses of the turn
RECURSIVE SearchRequests(_)
SearchRequests(responses) ==
    IF responses = <<>> THEN 0
    ELSE Len(SearchIds(responses[1], Len(responses[1].tool_calls)))
         + SearchRequests(Tail(responses))

\* C20: when run_agent returns "Max iterations reached", the 5th response
\* was handled like the others: its search_web requests were executed and
\* their results appended, so the Conversation ends with exactly 5 model
\* responses of the turn and with the tool results of the 5th, which no
\* invocation of the model was given.
C20_LastIterationHandled ==
    ReturnedExhausted =>
        /\ Len(TurnResponses) = 5
        /\ invokes = 5
        /\ messages[LastResponseIndex] = TurnResponses[5]
        /\ TailIds = SearchIds(TurnResponses[5], Len(TurnResponses[5].tool_calls))
        /\ Len(searched) = SearchRequests(TurnResponses)
        /\ Cardinality(ToolResults) = SearchRequests(TurnResponses)
        /\ llm_input = SubSeq(messages, 1, LastResponseIndex - 1)
        /\ \A j \in ToolResults : j > LastResponseIndex => j > Len(llm_input)

C20_Witness ==
    /\ ReturnedExhausted
    /\ Len(TurnResponses) = 5
    /\ TurnResponses[5].tool_calls[1].name = "search_web"
    /\ messages[Len(messages)].role = "tool"
    /\ messages[Len(messages)].tool_call_id = TurnResponses[5].tool_calls[1].id
    /\ Len(llm_input) < Len(messages) - 1

=============================================================================
